---- MODULE Spec2Model ----
(***************************************************************************)
(* Model of the Gemini MCP agent (src/agent.py), the multi-agent system    *)
(* (src/multi_agent.py) and the entry point (src/main.py).                 *)
(*                                                                         *)
(* A text (Python str) is a sequence of atoms; string concatenation is \o  *)
(* and "\n" is the atom NL.  The fixed Korean literals of the source are   *)
(* written as ASCII atoms with the same role.                              *)
(***************************************************************************)
EXTENDS Integers, Sequences, FiniteSets, TLC

\* ---------------------------------------------------------------- bounds
MaxPlanLen == 3

\* how many times connect is called on one object in the repeated-discovery
\* specification
MaxConnects == 2

\* ------------------------------------------------------ program constants
max_iterations == 10

NL == "\n"
EmptyResponse == <<"(empty response)">>
MaxIterWarning == <<"[warning] max iterations (10) reached">>
SynthesisText == <<"FINAL">>

UnknownToolError(name) == <<"error: unknown tool '", name, "'">>

\* ------------------------------------------------------------ text helpers
RECURSIVE JoinNL(_)
JoinNL(texts) ==
    IF Len(texts) = 0 THEN << >>
    ELSE IF Len(texts) = 1 THEN texts[1]
    ELSE texts[1] \o <<NL>> \o JoinNL(Tail(texts))

\* needle occurs in hay as a contiguous run (Python's `in` on str)
Contains(hay, needle) ==
    \E i \in 0..(Len(hay) - Len(needle)) :
        \A j \in 1..Len(needle) : hay[i + j] = needle[j]

\* ------------------------------------------------------------------- parts
TextPart(t)  == [kind |-> "text", text |-> t, name |-> "", result |-> << >>]
OtherPart    == [kind |-> "other", text |-> << >>, name |-> "", result |-> << >>]
FcPart(n)    == [kind |-> "function_call", text |-> << >>, name |-> n, result |-> << >>]
FrPart(n, r) == [kind |-> "function_response", text |-> << >>, name |-> n, result |-> r]

UserTurn(t)    == [role |-> "user", parts |-> <<TextPart(t)>>]
ModelTurn(ps)  == [role |-> "model", parts |-> ps]
ResultTurn(ps) == [role |-> "user", parts |-> ps]

IsFunctionCall(p) == p.kind = "function_call"
HasText(p) == p.kind = "text" /\ p.text # << >>

RECURSIVE TextsOf(_)
TextsOf(parts) ==
    IF Len(parts) = 0 THEN << >>
    ELSE IF HasText(Head(parts))
         THEN <<Head(parts).text>> \o TextsOf(Tail(parts))
         ELSE TextsOf(Tail(parts))

FunctionCalls(parts) == SelectSeq(parts, IsFunctionCall)

\* FinalText without the placeholder for a response that has no text
FinalText_NoPlaceholder(parts) == JoinNL(TextsOf(parts))

FinalText(parts) ==
    IF Len(TextsOf(parts)) > 0 THEN JoinNL(TextsOf(parts)) ELSE EmptyResponse

\* ------------------------------------------------ tool providers (config)
Servers == <<"s1", "s2">>

ListTools(server) ==
    IF server = "s1" THEN <<"get_commits", "search">> ELSE <<"search">>

\* content blocks returned by call_tool; a block without a text attribute
\* is rendered by str(block)
ToolContent(name) ==
    IF name = "get_commits"
    THEN << [hasText |-> TRUE, text |-> <<"c1">>, str |-> <<"TextContent">>],
            [hasText |-> FALSE, text |-> << >>, str |-> <<"ImageContent">>] >>
    ELSE << [hasText |-> TRUE, text |-> <<"hit">>, str |-> <<"TextContent">>] >>

RECURSIVE BlockTexts(_)
BlockTexts(blocks) ==
    IF Len(blocks) = 0 THEN << >>
    ELSE << IF Head(blocks).hasText THEN Head(blocks).text ELSE Head(blocks).str >>
         \o BlockTexts(Tail(blocks))

ResultText(content) == JoinNL(BlockTexts(content))

\* ------------------------------------------------ scripted LLM responses
UnknownTool == "nope"

QueryToolResponses ==
    { << TextPart(<<"thinking">>), FcPart(UnknownTool) >>,
      << FcPart("get_commits"), FcPart(UnknownTool), FcPart("search") >> }

QueryFinalResponses ==
    { << TextPart(<<"a">>) >>,
      << TextPart(<<"a">>), TextPart(<<"b">>) >>,
      << TextPart(<< >>), OtherPart, TextPart(<<"b">>) >>,
      << OtherPart >>,
      << >> }

RunToolResponses ==
    { << TextPart(<<"thinking">>), FcPart(UnknownTool), FcPart("get_commits") >> }

RunFinalResponses ==
    { << TextPart(<<"a">>) >>,
      << TextPart(<<"a">>), TextPart(<<"b">>) >> }

\* ------------------------------------------------------------ dict helpers
EmptyDict == [x \in {} |-> ""]

DictGet(d, k) == IF k \in DOMAIN d THEN d[k] ELSE ""

\* DictPut keeping the value of a key that is already present
DictPut_KeepsExisting(d, k, v) ==
    [x \in (DOMAIN d) \cup {k} |-> IF x \in DOMAIN d THEN d[x] ELSE v]

DictPut(d, k, v) == [x \in (DOMAIN d) \cup {k} |-> IF x = k THEN v ELSE d[x]]

\* insertion-ordered dict[str, str] (Orchestrator.process `results`): a
\* sequence of entries; assigning an existing key keeps the key's position
HasKey(od, k) == \E i \in 1..Len(od) : od[i].name = k

OrderedPut(od, k, v) ==
    IF HasKey(od, k)
    THEN [i \in 1..Len(od) |->
            IF od[i].name = k THEN [name |-> k, result |-> v] ELSE od[i]]
    ELSE Append(od, [name |-> k, result |-> v])

RECURSIVE Reverse(_)
Reverse(s) == IF Len(s) = 0 THEN << >> ELSE Reverse(Tail(s)) \o <<Head(s)>>

\* ------------------------------------------------------------ console input
IsSpace(c) == c = " "

RECURSIVE LStrip(_)
LStrip(s) == IF Len(s) > 0 /\ IsSpace(Head(s)) THEN LStrip(Tail(s)) ELSE s

Strip(s) == Reverse(LStrip(Reverse(LStrip(s))))

LowerChar(c) ==
    CASE c = "Q" -> "q" [] c = "U" -> "u" [] c = "I" -> "i" [] c = "T" -> "t"
      [] c = "E" -> "e" [] c = "X" -> "x" [] c = "H" -> "h"
      [] OTHER -> c

Lower(s) == [i \in 1..Len(s) |-> LowerChar(s[i])]

ConsoleLines ==
    { << >>,
      << " ", " " >>,
      << "q", "u", "i", "t" >>,
      << " ", "E", "x", "i", "T", " " >>,
      << " ", "H", "i" >> }

\* ------------------------------------------------------------------- state
VARIABLES
    multi_mode,        \* main: --multi given
    mpc,               \* main/chat_loop position
    connIdx,           \* connect: index of the next server of the config
    exit_stack,        \* AsyncExitStack: entered contexts, oldest first
    released,          \* contexts closed by aclose(), in closing order
    sessions,          \* server names holding a ClientSession
    tools_map,         \* tool name -> server name
    all_declarations,  \* connect: declarations collected so far
    gemini_tools,      \* names of the declared functions (empty: no Tool)
    specialists,       \* Orchestrator.specialists: agent key -> specialist
    mainExc,           \* exception propagating out of main ("" if none)
    user_input,        \* chat_loop: the stripped line being handled
    printed,           \* chat_loop: what the last handled line printed
    lpc,               \* tool-calling loop position
    runner,            \* "query" or the key of the running specialist
    messages,          \* the loop's turn sequence
    response,          \* parts of the last candidate generate_content returned
    iteration,         \* completed iterations of range(10)
    function_calls,    \* function-call parts of the current response
    fcIdx,             \* index of the next part of function_calls to execute
    tool_results,      \* result parts collected for the current response
    loop_ret,          \* value returned by query / run
    exc,               \* exception raised by the running request ("" if none)
    llmCalls,          \* generate_content calls made by the current loop run
    toolLog,           \* call_tool invocations of the current loop run
    opc,               \* Orchestrator.process position
    planText,          \* text of the planning response
    steps,             \* plan.get("plan", [])
    stepIdx,           \* index of the step the for-loop is at
    results,           \* results: insertion-ordered agent name -> output
    executed,          \* log of specialist runs: step, agent, task, output
    synthesis_prompt,  \* prompt of the synthesis call
    orch_ret,          \* value returned by process
    planCalls,         \* planning generate_content calls of the request
    synthCalls         \* synthesis generate_content calls of the request

mainVars == << multi_mode, mpc, connIdx, exit_stack, released, sessions,
               tools_map, all_declarations, gemini_tools, specialists,
               mainExc, user_input, printed >>
loopVars == << lpc, runner, messages, response, iteration, function_calls, fcIdx,
               tool_results, loop_ret, llmCalls, toolLog >>
orchVars == << opc, planText, steps, stepIdx, results, executed,
               synthesis_prompt, orch_ret, planCalls, synthCalls >>
reqVars  == << exc >>
vars == << mainVars, loopVars, orchVars, reqVars >>

NoPlanText ==
    [valid |-> FALSE, isObject |-> FALSE, keys |-> {}, needs_specialists |-> FALSE,
     direct_response |-> << >>, plan |-> << >>]

NoPrint == [kind |-> "none", text |-> << >>]

LoopIdle ==
    /\ lpc = "idle" /\ runner = "" /\ messages = << >> /\ iteration = 0
    /\ response = << >>
    /\ function_calls = << >> /\ fcIdx = 1 /\ tool_results = << >>
    /\ loop_ret = << >> /\ llmCalls = 0 /\ toolLog = << >>

OrchIdle ==
    /\ opc = "idle" /\ planText = NoPlanText /\ steps = << >> /\ stepIdx = 1
    /\ results = << >> /\ executed = << >> /\ synthesis_prompt = << >>
    /\ orch_ret = << >> /\ planCalls = 0 /\ synthCalls = 0

ReqIdle == exc = ""

Init ==
    /\ multi_mode \in BOOLEAN
    /\ mpc = "connect" /\ connIdx = 1
    /\ exit_stack = << >> /\ released = << >>
    /\ sessions = {} /\ tools_map = EmptyDict
    /\ all_declarations = << >> /\ gemini_tools = << >>
    /\ specialists = EmptyDict
    /\ mainExc = "" /\ user_input = << >> /\ printed = NoPrint
    /\ LoopIdle /\ OrchIdle /\ ReqIdle

\* ----------------------------------------------------------------- connect
Ctx(kind, server) == [kind |-> kind, server |-> server]

RECURSIVE RegisterTools(_, _, _)
RegisterTools(tm, tools, server) ==
    IF Len(tools) = 0 THEN tm
    ELSE RegisterTools(DictPut(tm, Head(tools), server), Tail(tools), server)

\* one pass of `for server_name, server_config in servers.items()`
ConnectServer ==
    /\ connIdx <= Len(Servers)
    /\ LET s == Servers[connIdx] IN
         /\ exit_stack' = exit_stack \o <<Ctx("stdio", s), Ctx("session", s)>>
         /\ sessions' = sessions \cup {s}
         /\ tools_map' = RegisterTools(tools_map, ListTools(s), s)
         /\ all_declarations' = all_declarations \o ListTools(s)
    /\ connIdx' = connIdx + 1

ConnectStages == {"stdio_client", "ClientSession", "initialize", "list_tools"}

\* the same pass when one of its awaits raises
ConnectServerFails(stage) ==
    /\ connIdx <= Len(Servers)
    /\ LET s == Servers[connIdx] IN
         /\ exit_stack' =
              exit_stack \o
                (CASE stage = "stdio_client" -> << >>
                   [] stage = "ClientSession" -> <<Ctx("stdio", s)>>
                   [] OTHER -> <<Ctx("stdio", s), Ctx("session", s)>>)
         /\ sessions' = IF stage = "list_tools" THEN sessions \cup {s} ELSE sessions
    /\ mainExc' = "ProviderConnectError"
    /\ mpc' = "cleanup"

Specialist(name, gt, ss, tm) ==
    [name |-> name, gemini_tools |-> gt, sessions |-> ss, tools_map |-> tm]

ToolsOf(decls) == decls

AgentConnectServer ==
    /\ mpc = "connect" /\ ~multi_mode
    /\ ConnectServer
    /\ UNCHANGED << multi_mode, mpc, released, gemini_tools, specialists,
                    mainExc, user_input, printed >>
    /\ UNCHANGED << loopVars, orchVars, reqVars >>

AgentConnectFails ==
    /\ mpc = "connect" /\ ~multi_mode
    /\ \E stage \in ConnectStages : ConnectServerFails(stage)
    /\ UNCHANGED << multi_mode, connIdx, released, tools_map, all_declarations,
                    gemini_tools, specialists, user_input, printed >>
    /\ UNCHANGED << loopVars, orchVars, reqVars >>

AgentConnectDone ==
    /\ mpc = "connect" /\ ~multi_mode
    /\ connIdx > Len(Servers)
    /\ gemini_tools' = IF Len(all_declarations) > 0
                       THEN ToolsOf(all_declarations) ELSE gemini_tools
    /\ mpc' = "prompt"
    /\ UNCHANGED << multi_mode, connIdx, exit_stack, released, sessions,
                    tools_map, all_declarations, specialists, mainExc,
                    user_input, printed >>
    /\ UNCHANGED << loopVars, orchVars, reqVars >>

SystemConnectServer ==
    /\ mpc = "connect" /\ multi_mode
    /\ ConnectServer
    /\ UNCHANGED << multi_mode, mpc, released, gemini_tools, specialists,
                    mainExc, user_input, printed >>
    /\ UNCHANGED << loopVars, orchVars, reqVars >>

SystemConnectFails ==
    /\ mpc = "connect" /\ multi_mode
    /\ \E stage \in ConnectStages : ConnectServerFails(stage)
    /\ UNCHANGED << multi_mode, connIdx, released, tools_map, all_declarations,
                    gemini_tools, specialists, user_input, printed >>
    /\ UNCHANGED << loopVars, orchVars, reqVars >>

\* SystemConnectDone handing the catalog, sessions and routing table to the
\* writer as well
SystemConnectDone_WriterHasTools ==
    /\ mpc = "connect" /\ multi_mode
    /\ connIdx > Len(Servers)
    /\ LET gt == IF Len(all_declarations) > 0
                 THEN ToolsOf(all_declarations) ELSE gemini_tools
       IN /\ gemini_tools' = gt
          /\ specialists' =
               [k \in {"analyst", "writer", "reviewer"} |->
                  CASE k = "analyst" -> Specialist("Analyst", gt, sessions, tools_map)
                    [] k = "writer" -> Specialist("Writer", gt, sessions, tools_map)
                    [] OTHER -> Specialist("Reviewer", << >>, {}, EmptyDict)]
    /\ mpc' = "prompt"
    /\ UNCHANGED << multi_mode, connIdx, exit_stack, released, sessions,
                    tools_map, all_declarations, mainExc, user_input, printed >>
    /\ UNCHANGED << loopVars, orchVars, reqVars >>

SystemConnectDone ==
    /\ mpc = "connect" /\ multi_mode
    /\ connIdx > Len(Servers)
    /\ LET gt == IF Len(all_declarations) > 0
                 THEN ToolsOf(all_declarations) ELSE gemini_tools
       IN /\ gemini_tools' = gt
          /\ specialists' =
               [k \in {"analyst", "writer", "reviewer"} |->
                  CASE k = "analyst" -> Specialist("Analyst", gt, sessions, tools_map)
                    [] k = "writer" -> Specialist("Writer", << >>, {}, EmptyDict)
                    [] OTHER -> Specialist("Reviewer", << >>, {}, EmptyDict)]
    /\ mpc' = "prompt"
    /\ UNCHANGED << multi_mode, connIdx, exit_stack, released, sessions,
                    tools_map, all_declarations, mainExc, user_input, printed >>
    /\ UNCHANGED << loopVars, orchVars, reqVars >>

\* ConnectAgain with the declarations of the earlier call kept
ConnectAgain_KeepsDeclarations ==
    /\ mpc = "prompt"
    /\ Len(exit_stack) < 2 * Len(Servers) * MaxConnects
    /\ mpc' = "connect"
    /\ connIdx' = 1
    /\ UNCHANGED << multi_mode, exit_stack, released, sessions, tools_map,
                    all_declarations, gemini_tools, specialists, mainExc,
                    user_input, printed >>
    /\ UNCHANGED << loopVars, orchVars, reqVars >>

\* connect called once more on the same object: the server loop starts over
\* with a fresh local `all_declarations = []`; sessions, tools_map,
\* gemini_tools and the exit stack are the object's and keep their content
ConnectAgain ==
    /\ mpc = "prompt"
    /\ Len(exit_stack) < 2 * Len(Servers) * MaxConnects
    /\ mpc' = "connect"
    /\ connIdx' = 1
    /\ all_declarations' = << >>
    /\ UNCHANGED << multi_mode, exit_stack, released, sessions, tools_map,
                    gemini_tools, specialists, mainExc, user_input, printed >>
    /\ UNCHANGED << loopVars, orchVars, reqVars >>

\* --------------------------------------------------------------- chat_loop
\* input() raises EOFError or KeyboardInterrupt: the loop breaks
ChatEndOfInput ==
    /\ mpc = "prompt"
    /\ mpc' = "cleanup"
    /\ printed' = [kind |-> "bye", text |-> << >>]
    /\ UNCHANGED << multi_mode, connIdx, exit_stack, released, sessions,
                    tools_map, all_declarations, gemini_tools, specialists,
                    mainExc, user_input >>
    /\ UNCHANGED << loopVars, orchVars, reqVars >>

\* a line is read; empty input continues, quit/exit breaks, anything else
\* starts query (agent.py) or orchestrator.process (multi_agent.py)
ChatReadLine ==
    /\ mpc = "prompt"
    /\ \E line \in ConsoleLines :
         LET inp == Strip(line) IN
         /\ user_input' = inp
         /\ IF inp = << >>
            THEN /\ mpc' = "prompt"
                 /\ printed' = NoPrint
                 /\ UNCHANGED << loopVars, orchVars >>
            ELSE IF Lower(inp) \in { <<"q", "u", "i", "t">>, <<"e", "x", "i", "t">> }
            THEN /\ mpc' = "cleanup"
                 /\ printed' = [kind |-> "bye", text |-> << >>]
                 /\ UNCHANGED << loopVars, orchVars >>
            ELSE /\ mpc' = "request"
                 /\ printed' = NoPrint
                 /\ IF multi_mode
                    THEN /\ opc' = "plan"
                         /\ UNCHANGED << planText, steps, stepIdx, results,
                                         executed, synthesis_prompt, orch_ret,
                                         planCalls, synthCalls >>
                         /\ UNCHANGED loopVars
                    ELSE /\ lpc' = "generate"
                         /\ runner' = "query"
                         /\ messages' = << UserTurn(inp) >>
                         /\ UNCHANGED << response, iteration, function_calls, fcIdx,
                                         tool_results, loop_ret, llmCalls, toolLog >>
                         /\ UNCHANGED orchVars
    /\ UNCHANGED << multi_mode, connIdx, exit_stack, released, sessions,
                    tools_map, all_declarations, gemini_tools, specialists,
                    mainExc >>
    /\ UNCHANGED reqVars

ResetLoop ==
    /\ lpc' = "idle" /\ runner' = "" /\ messages' = << >> /\ iteration' = 0
    /\ response' = << >>
    /\ function_calls' = << >> /\ fcIdx' = 1 /\ tool_results' = << >>
    /\ loop_ret' = << >> /\ llmCalls' = 0 /\ toolLog' = << >>

ResetOrch ==
    /\ opc' = "idle" /\ planText' = NoPlanText /\ steps' = << >> /\ stepIdx' = 1
    /\ results' = << >> /\ executed' = << >> /\ synthesis_prompt' = << >>
    /\ orch_ret' = << >> /\ planCalls' = 0 /\ synthCalls' = 0

ResetReq == exc' = ""

\* the request returned: print the response, go back to the prompt
ChatPrintResponse ==
    /\ mpc = "request"
    /\ \/ ~multi_mode /\ lpc = "returned"
          /\ printed' = [kind |-> "response", text |-> loop_ret]
       \/ multi_mode /\ opc = "returned"
          /\ printed' = [kind |-> "response", text |-> orch_ret]
    /\ mpc' = "prompt"
    /\ ResetLoop /\ ResetOrch /\ ResetReq
    /\ UNCHANGED << multi_mode, connIdx, exit_stack, released, sessions,
                    tools_map, all_declarations, gemini_tools, specialists,
                    mainExc, user_input >>

\* ChatPrintError with the handler leaving the while-loop after reporting
ChatPrintError_EndsSession ==
    /\ mpc = "request"
    /\ \/ ~multi_mode /\ lpc = "raised"
       \/ multi_mode /\ opc = "raised"
    /\ printed' = [kind |-> "error", text |-> <<exc>>]
    /\ mpc' = "cleanup"
    /\ ResetLoop /\ ResetOrch /\ ResetReq
    /\ UNCHANGED << multi_mode, connIdx, exit_stack, released, sessions,
                    tools_map, all_declarations, gemini_tools, specialists,
                    mainExc, user_input >>

\* `except Exception as e`: print the error, go back to the prompt
ChatPrintError ==
    /\ mpc = "request"
    /\ \/ ~multi_mode /\ lpc = "raised"
       \/ multi_mode /\ opc = "raised"
    /\ printed' = [kind |-> "error", text |-> <<exc>>]
    /\ mpc' = "prompt"
    /\ ResetLoop /\ ResetOrch /\ ResetReq
    /\ UNCHANGED << multi_mode, connIdx, exit_stack, released, sessions,
                    tools_map, all_declarations, gemini_tools, specialists,
                    mainExc, user_input >>

\* Cleanup closing only the context entered last
Cleanup_ClosesLastOnly ==
    /\ mpc = "cleanup"
    /\ released' = IF Len(exit_stack) = 0 THEN << >>
                   ELSE << exit_stack[Len(exit_stack)] >>
    /\ exit_stack' = IF Len(exit_stack) = 0 THEN << >>
                     ELSE SubSeq(exit_stack, 1, Len(exit_stack) - 1)
    /\ mpc' = "exited"
    /\ UNCHANGED << multi_mode, connIdx, sessions, tools_map, all_declarations,
                    gemini_tools, specialists, mainExc, user_input, printed >>
    /\ UNCHANGED << loopVars, orchVars, reqVars >>

\* main's `finally`: AsyncExitStack.aclose() closes in reverse order
Cleanup ==
    /\ mpc = "cleanup"
    /\ released' = Reverse(exit_stack)
    /\ exit_stack' = << >>
    /\ mpc' = "exited"
    /\ UNCHANGED << multi_mode, connIdx, sessions, tools_map, all_declarations,
                    gemini_tools, specialists, mainExc, user_input, printed >>
    /\ UNCHANGED << loopVars, orchVars, reqVars >>

\* a user interrupt while a call of the request is in flight (generate_content,
\* call_tool): KeyboardInterrupt / CancelledError derive from BaseException,
\* so `except Exception` does not catch it; the frames of query / process
\* unwind, chat_loop is left and main's `finally` runs
RequestInterrupted ==
    /\ mpc = "request"
    /\ \/ lpc \in {"generate", "tools"}
       \/ multi_mode /\ opc = "plan"
       \/ multi_mode /\ opc = "steps" /\ stepIdx > Len(steps) /\ Len(results) # 1
    /\ exc' = "KeyboardInterrupt"
    /\ mainExc' = "KeyboardInterrupt"
    /\ mpc' = "cleanup"
    /\ ResetLoop /\ ResetOrch
    /\ UNCHANGED << multi_mode, connIdx, exit_stack, released, sessions,
                    tools_map, all_declarations, gemini_tools, specialists,
                    user_input, printed >>

\* ------------------------------------------------ the tool-calling loop
\* lines 98-109 of query / 76-89 of run, after generate_content returned
\* `parts`: return the final text, or append the model turn and start on the
\* function calls
LoopOnResponse(parts) ==
    /\ llmCalls' = llmCalls + 1
    /\ response' = parts
    /\ IF Len(FunctionCalls(parts)) = 0
       THEN /\ loop_ret' = FinalText(parts)
            /\ lpc' = "returned"
            /\ UNCHANGED << messages, function_calls, fcIdx, tool_results >>
       ELSE /\ messages' = Append(messages, ModelTurn(parts))
            /\ function_calls' = FunctionCalls(parts)
            /\ fcIdx' = 1
            /\ tool_results' = << >>
            /\ lpc' = "tools"
            /\ UNCHANGED loop_ret
    /\ UNCHANGED << runner, iteration, toolLog, exc >>

\* generate_content raises: nothing in query / run catches it
LoopOnLlmError ==
    /\ llmCalls' = llmCalls + 1
    /\ exc' = "LLMCallError"
    /\ lpc' = "raised"
    /\ UNCHANGED << runner, messages, response, iteration, function_calls,
                    fcIdx, tool_results, loop_ret, toolLog >>

\* tool_results.append(...) for the current function call and, after the
\* last one, messages.append(Content(role="user", parts=tool_results)) and
\* the next pass of range(10); after the tenth pass the warning is returned
\* LoopAfterTool with the cap off by one: an eleventh pass is made
LoopAfterTool_OffByOne(result_text) ==
    LET fc == function_calls[fcIdx]
        trs == Append(tool_results, FrPart(fc.name, result_text))
    IN IF fcIdx < Len(function_calls)
       THEN /\ tool_results' = trs
            /\ fcIdx' = fcIdx + 1
            /\ UNCHANGED << lpc, messages, iteration, loop_ret >>
       ELSE /\ tool_results' = trs
            /\ fcIdx' = fcIdx + 1
            /\ messages' = Append(messages, ResultTurn(trs))
            /\ iteration' = iteration + 1
            /\ IF iteration + 1 < max_iterations + 1
               THEN lpc' = "generate" /\ UNCHANGED loop_ret
               ELSE lpc' = "returned" /\ loop_ret' = MaxIterWarning

LoopAfterTool(result_text) ==
    LET fc == function_calls[fcIdx]
        trs == Append(tool_results, FrPart(fc.name, result_text))
    IN IF fcIdx < Len(function_calls)
       THEN /\ tool_results' = trs
            /\ fcIdx' = fcIdx + 1
            /\ UNCHANGED << lpc, messages, iteration, loop_ret >>
       ELSE /\ tool_results' = trs
            /\ fcIdx' = fcIdx + 1
            /\ messages' = Append(messages, ResultTurn(trs))
            /\ iteration' = iteration + 1
            /\ IF iteration + 1 < max_iterations
               THEN lpc' = "generate" /\ UNCHANGED loop_ret
               ELSE lpc' = "returned" /\ loop_ret' = MaxIterWarning

\* `if not server_name`: the name is not routed
LoopToolUnknown(tm) ==
    LET fc == function_calls[fcIdx] IN
    /\ DictGet(tm, fc.name) = ""
    /\ LoopAfterTool(UnknownToolError(fc.name))
    /\ UNCHANGED << runner, response, function_calls, llmCalls, toolLog, exc >>

\* session.call_tool(...) returned its content blocks
LoopCallTool(tm) ==
    LET fc == function_calls[fcIdx]
        server_name == DictGet(tm, fc.name)
    IN /\ server_name # ""
       /\ toolLog' = Append(toolLog, [server |-> server_name, name |-> fc.name])
       /\ LoopAfterTool(ResultText(ToolContent(fc.name)))
       /\ UNCHANGED << runner, response, function_calls, llmCalls, exc >>

\* session.call_tool(...) raised: there is no try around it
LoopCallToolRaises(tm) ==
    LET fc == function_calls[fcIdx]
        server_name == DictGet(tm, fc.name)
    IN /\ server_name # ""
       /\ toolLog' = Append(toolLog, [server |-> server_name, name |-> fc.name])
       /\ exc' = "ToolInvocationError"
       /\ lpc' = "raised"
       /\ UNCHANGED << runner, messages, response, iteration, function_calls,
                       fcIdx, tool_results, loop_ret, llmCalls >>

\* ---------------------------------------------------- GeminiMCPAgent.query
InQuery == mpc = "request" /\ ~multi_mode /\ runner = "query"

QueryGenerate ==
    /\ InQuery /\ lpc = "generate"
    /\ \E parts \in QueryToolResponses \cup QueryFinalResponses :
          LoopOnResponse(parts)
    /\ UNCHANGED << mainVars, orchVars >>

QueryGenerateFails ==
    /\ InQuery /\ lpc = "generate"
    /\ LoopOnLlmError
    /\ UNCHANGED << mainVars, orchVars >>

QueryToolUnknown ==
    /\ InQuery /\ lpc = "tools"
    /\ LoopToolUnknown(tools_map)
    /\ UNCHANGED << mainVars, orchVars >>

QueryCallTool ==
    /\ InQuery /\ lpc = "tools"
    /\ LoopCallTool(tools_map)
    /\ UNCHANGED << mainVars, orchVars >>

QueryCallToolFails ==
    /\ InQuery /\ lpc = "tools"
    /\ LoopCallToolRaises(tools_map)
    /\ UNCHANGED << mainVars, orchVars >>

\* ------------------------------------------------------ SpecialistAgent.run
InRun == mpc = "request" /\ multi_mode /\ opc = "running"

\* an exception leaving run leaves Orchestrator.process as well
Propagate == opc' = (IF lpc' = "raised" THEN "raised" ELSE opc)

orchRest == << planText, steps, stepIdx, results, executed, synthesis_prompt,
               orch_ret, planCalls, synthCalls >>

\* the loop of SpecialistAgent.run, from its own text
run_max_iterations == 10
RunEmptyResponse == <<"(empty response)">>
RunMaxIterWarning == <<"[warning] max iterations (10) reached">>

RunUnknownToolError(name) == <<"error: unknown tool '", name, "'">>

RunFunctionCalls(parts) == SelectSeq(parts, IsFunctionCall)

RunFinalText(parts) ==
    IF Len(TextsOf(parts)) > 0 THEN JoinNL(TextsOf(parts)) ELSE RunEmptyResponse

\* RunLoopOnResponse forgetting `messages.append(candidate.content)`
RunLoopOnResponse_DropsModelTurn(parts) ==
    /\ llmCalls' = llmCalls + 1
    /\ response' = parts
    /\ IF Len(RunFunctionCalls(parts)) = 0
       THEN /\ loop_ret' = RunFinalText(parts)
            /\ lpc' = "returned"
            /\ UNCHANGED << messages, function_calls, fcIdx, tool_results >>
       ELSE /\ messages' = messages
            /\ function_calls' = RunFunctionCalls(parts)
            /\ fcIdx' = 1
            /\ tool_results' = << >>
            /\ lpc' = "tools"
            /\ UNCHANGED loop_ret
    /\ UNCHANGED << runner, iteration, toolLog, exc >>

\* lines 76-89, after generate_content returned `parts`
RunLoopOnResponse(parts) ==
    /\ llmCalls' = llmCalls + 1
    /\ response' = parts
    /\ IF Len(RunFunctionCalls(parts)) = 0
       THEN /\ loop_ret' = RunFinalText(parts)
            /\ lpc' = "returned"
            /\ UNCHANGED << messages, function_calls, fcIdx, tool_results >>
       ELSE /\ messages' = Append(messages, ModelTurn(parts))
            /\ function_calls' = RunFunctionCalls(parts)
            /\ fcIdx' = 1
            /\ tool_results' = << >>
            /\ lpc' = "tools"
            /\ UNCHANGED loop_ret
    /\ UNCHANGED << runner, iteration, toolLog, exc >>

\* generate_content raises: run has no try around it
RunLoopOnLlmError ==
    /\ llmCalls' = llmCalls + 1
    /\ exc' = "LLMCallError"
    /\ lpc' = "raised"
    /\ UNCHANGED << runner, messages, response, iteration, function_calls,
                    fcIdx, tool_results, loop_ret, toolLog >>

\* lines 108-119: the result part of the current call; after the last call
\* the tool-result turn and the next pass of range(10), or the warning
RunLoopAfterTool(result_text) ==
    LET fc == function_calls[fcIdx]
        trs == Append(tool_results, FrPart(fc.name, result_text))
    IN IF fcIdx < Len(function_calls)
       THEN /\ tool_results' = trs
            /\ fcIdx' = fcIdx + 1
            /\ UNCHANGED << lpc, messages, iteration, loop_ret >>
       ELSE /\ tool_results' = trs
            /\ fcIdx' = fcIdx + 1
            /\ messages' = Append(messages, ResultTurn(trs))
            /\ iteration' = iteration + 1
            /\ IF iteration + 1 < run_max_iterations
               THEN lpc' = "generate" /\ UNCHANGED loop_ret
               ELSE lpc' = "returned" /\ loop_ret' = RunMaxIterWarning

\* lines 97-99
RunLoopToolUnknown(tm) ==
    LET fc == function_calls[fcIdx] IN
    /\ DictGet(tm, fc.name) = ""
    /\ RunLoopAfterTool(RunUnknownToolError(fc.name))
    /\ UNCHANGED << runner, response, function_calls, llmCalls, toolLog, exc >>

\* lines 100-106, call_tool returned
RunLoopCallTool(tm) ==
    LET fc == function_calls[fcIdx]
        server_name == DictGet(tm, fc.name)
    IN /\ server_name # ""
       /\ toolLog' = Append(toolLog, [server |-> server_name, name |-> fc.name])
       /\ RunLoopAfterTool(ResultText(ToolContent(fc.name)))
       /\ UNCHANGED << runner, response, function_calls, llmCalls, exc >>

\* line 102, call_tool raised: there is no try around it
RunLoopCallToolRaises(tm) ==
    LET fc == function_calls[fcIdx]
        server_name == DictGet(tm, fc.name)
    IN /\ server_name # ""
       /\ toolLog' = Append(toolLog, [server |-> server_name, name |-> fc.name])
       /\ exc' = "ToolInvocationError"
       /\ lpc' = "raised"
       /\ UNCHANGED << runner, messages, response, iteration, function_calls,
                       fcIdx, tool_results, loop_ret, llmCalls >>

RunGenerate ==
    /\ InRun /\ lpc = "generate"
    /\ \E parts \in RunToolResponses \cup RunFinalResponses :
          RunLoopOnResponse(parts)
    /\ UNCHANGED << mainVars, opc, orchRest >>

RunGenerateFails ==
    /\ InRun /\ lpc = "generate"
    /\ RunLoopOnLlmError
    /\ Propagate
    /\ UNCHANGED << mainVars, orchRest >>

RunToolUnknown ==
    /\ InRun /\ lpc = "tools"
    /\ RunLoopToolUnknown(specialists[runner].tools_map)
    /\ UNCHANGED << mainVars, opc, orchRest >>

RunCallTool ==
    /\ InRun /\ lpc = "tools"
    /\ RunLoopCallTool(specialists[runner].tools_map)
    /\ UNCHANGED << mainVars, opc, orchRest >>

RunCallToolFails ==
    /\ InRun /\ lpc = "tools"
    /\ RunLoopCallToolRaises(specialists[runner].tools_map)
    /\ Propagate
    /\ UNCHANGED << mainVars, orchRest >>

\* ---------------------------------------------------- planning responses
PlanAgents == {"analyst", "writer", "reviewer", "ghost"}
TaskText == <<"task">>

StepShapes ==
    { [keys |-> {"agent", "task"}, agent |-> a, task |-> TaskText] : a \in PlanAgents }
    \cup { [keys |-> {"agent"}, agent |-> "writer", task |-> << >>] }

RECURSIVE SeqsUpTo(_, _)
SeqsUpTo(S, n) ==
    IF n = 0 THEN { << >> }
    ELSE LET shorter == SeqsUpTo(S, n - 1)
         IN shorter \cup { Append(q, x) : q \in { r \in shorter : Len(r) = n - 1 }, x \in S }

JsonObject(keys, ns, dr, plan) ==
    [valid |-> TRUE, isObject |-> TRUE, keys |-> keys, needs_specialists |-> ns,
     direct_response |-> dr, plan |-> plan]

PlanResponses ==
    { [valid |-> FALSE, isObject |-> FALSE, keys |-> {}, needs_specialists |-> FALSE,
       direct_response |-> << >>, plan |-> << >>],
      [valid |-> TRUE, isObject |-> FALSE, keys |-> {}, needs_specialists |-> FALSE,
       direct_response |-> << >>, plan |-> << >>],
      JsonObject({}, FALSE, << >>, << >>),
      JsonObject({"needs_specialists"}, FALSE, << >>, << >>),
      JsonObject({"needs_specialists", "direct_response"}, FALSE, <<"hi">>, << >>),
      JsonObject({"needs_specialists"}, TRUE, << >>, << >>) }
    \cup { JsonObject({"needs_specialists", "plan"}, TRUE, << >>, st) :
              st \in SeqsUpTo(StepShapes, MaxPlanLen) }

\* json.loads(text)
JsonLoads(text) == [ok |-> text.valid, value |-> text]

\* plan.get(key, default) on the parsed value
NeedsSpecialists(plan) ==
    IF "needs_specialists" \in plan.keys THEN plan.needs_specialists ELSE FALSE

\* DirectResponse ignoring the plan's direct_response
DirectResponse_AlwaysDefault(plan) == EmptyResponse

DirectResponse(plan) ==
    IF "direct_response" \in plan.keys THEN plan.direct_response ELSE EmptyResponse

PlanSteps(plan) == IF "plan" \in plan.keys THEN plan.plan ELSE << >>

\* ------------------------------------------------------------- prompt text
Context(ui) == <<"original user request: ">> \o ui \o <<NL, NL>>

RECURSIVE RenderResults(_)
RenderResults(od) ==
    IF Len(od) = 0 THEN << >>
    ELSE <<"--- ", Head(od).name, " result ---", NL>> \o Head(od).result
         \o <<NL, NL>> \o RenderResults(Tail(od))

FullTask(ui, task, od) ==
    Context(ui) \o <<"current task: ">> \o task
    \o (IF Len(od) > 0
        THEN <<NL, NL, "previous step results:", NL>> \o RenderResults(od)
        ELSE << >>)

SynthesisPrompt(ui, od) ==
    <<"original user request: ">> \o ui \o <<NL, NL>>
    \o <<"integrate the results of the specialists:", NL, NL>>
    \o RenderResults(od)

\* ------------------------------------------------------ Orchestrator.process
InProcess == mpc = "request" /\ multi_mode

\* _create_plan and the lines of process up to the for-loop
OrchPlan ==
    /\ InProcess /\ opc = "plan"
    /\ \E text \in PlanResponses :
         LET parsed == JsonLoads(text)
             plan == parsed.value
             st == PlanSteps(plan)
         IN /\ planText' = text
            /\ IF ~parsed.ok
               THEN /\ exc' = "JSONDecodeError" /\ opc' = "raised"
                    /\ UNCHANGED << steps, orch_ret >>
               ELSE IF ~plan.isObject
               THEN /\ exc' = "AttributeError" /\ opc' = "raised"
                    /\ UNCHANGED << steps, orch_ret >>
               ELSE IF ~NeedsSpecialists(plan)
               THEN /\ orch_ret' = DirectResponse(plan) /\ opc' = "returned"
                    /\ UNCHANGED << steps, exc >>
               ELSE IF \E i \in 1..Len(st) : "agent" \notin st[i].keys
               THEN /\ exc' = "KeyError" /\ opc' = "raised"
                    /\ steps' = st
                    /\ UNCHANGED orch_ret
               ELSE /\ steps' = st /\ opc' = "steps"
                    /\ UNCHANGED << orch_ret, exc >>
    /\ planCalls' = planCalls + 1
    /\ UNCHANGED << stepIdx, results, executed, synthesis_prompt, synthCalls >>
    /\ UNCHANGED << mainVars, loopVars >>

\* the planning generate_content call raises
OrchPlanFails ==
    /\ InProcess /\ opc = "plan"
    /\ planCalls' = planCalls + 1
    /\ exc' = "LLMCallError" /\ opc' = "raised"
    /\ UNCHANGED << planText, steps, stepIdx, results, executed,
                    synthesis_prompt, orch_ret, synthCalls >>
    /\ UNCHANGED << mainVars, loopVars >>

AtStep == InProcess /\ opc = "steps" /\ stepIdx <= Len(steps)

\* step["task"] is missing
OrchStepKeyError ==
    /\ AtStep
    /\ "task" \notin steps[stepIdx].keys
    /\ exc' = "KeyError" /\ opc' = "raised"
    /\ UNCHANGED << planText, steps, stepIdx, results, executed,
                    synthesis_prompt, orch_ret, planCalls, synthCalls >>
    /\ UNCHANGED << mainVars, loopVars >>

\* OrchStepSkip leaving the for-loop (`break`) instead of continuing it
OrchStepSkip_Break ==
    /\ AtStep
    /\ "task" \in steps[stepIdx].keys
    /\ steps[stepIdx].agent \notin DOMAIN specialists
    /\ stepIdx' = Len(steps) + 1
    /\ UNCHANGED << opc, planText, steps, results, executed, synthesis_prompt,
                    orch_ret, planCalls, synthCalls >>
    /\ UNCHANGED << mainVars, loopVars, reqVars >>

\* `if not specialist: continue`
OrchStepSkip ==
    /\ AtStep
    /\ "task" \in steps[stepIdx].keys
    /\ steps[stepIdx].agent \notin DOMAIN specialists
    /\ stepIdx' = stepIdx + 1
    /\ UNCHANGED << opc, planText, steps, results, executed, synthesis_prompt,
                    orch_ret, planCalls, synthCalls >>
    /\ UNCHANGED << mainVars, loopVars, reqVars >>

\* OrchStepRun starting the run without awaiting it: the for-loop goes on to
\* the next step while the run is in flight
OrchStepRun_NoAwait ==
    /\ AtStep
    /\ "task" \in steps[stepIdx].keys
    /\ steps[stepIdx].agent \in DOMAIN specialists
    /\ LET agent_name == steps[stepIdx].agent
           full_task == FullTask(user_input, steps[stepIdx].task, results)
       IN /\ executed' = Append(executed,
                [step |-> stepIdx, agent |-> agent_name, task |-> full_task,
                 output |-> << >>, done |-> FALSE])
          /\ runner' = agent_name
          /\ messages' = << UserTurn(full_task) >>
    /\ lpc' = "generate"
    /\ iteration' = 0 /\ llmCalls' = 0 /\ toolLog' = << >>
    /\ function_calls' = << >> /\ fcIdx' = 1 /\ tool_results' = << >>
    /\ loop_ret' = << >> /\ response' = << >>
    /\ stepIdx' = stepIdx + 1
    /\ UNCHANGED << opc, planText, steps, results, synthesis_prompt,
                    orch_ret, planCalls, synthCalls >>
    /\ UNCHANGED << mainVars, reqVars >>

\* build full_task and enter specialist.run(full_task)
OrchStepRun ==
    /\ AtStep
    /\ "task" \in steps[stepIdx].keys
    /\ steps[stepIdx].agent \in DOMAIN specialists
    /\ LET agent_name == steps[stepIdx].agent
           full_task == FullTask(user_input, steps[stepIdx].task, results)
       IN /\ executed' = Append(executed,
                [step |-> stepIdx, agent |-> agent_name, task |-> full_task,
                 output |-> << >>, done |-> FALSE])
          /\ runner' = agent_name
          /\ messages' = << UserTurn(full_task) >>
    /\ lpc' = "generate"
    /\ iteration' = 0 /\ llmCalls' = 0 /\ toolLog' = << >>
    /\ function_calls' = << >> /\ fcIdx' = 1 /\ tool_results' = << >>
    /\ loop_ret' = << >> /\ response' = << >>
    /\ opc' = "running"
    /\ UNCHANGED << planText, steps, stepIdx, results, synthesis_prompt,
                    orch_ret, planCalls, synthCalls >>
    /\ UNCHANGED << mainVars, reqVars >>

\* run returned: results[agent_name] = result, next step
OrchStepReturn ==
    /\ InProcess /\ opc = "running" /\ lpc = "returned"
    /\ results' = OrderedPut(results, runner, loop_ret)
    /\ executed' = [executed EXCEPT ![Len(executed)].output = loop_ret,
                                    ![Len(executed)].done = TRUE]
    /\ stepIdx' = stepIdx + 1
    /\ opc' = "steps"
    /\ ResetLoop
    /\ UNCHANGED << planText, steps, synthesis_prompt, orch_ret, planCalls,
                    synthCalls >>
    /\ UNCHANGED << mainVars, reqVars >>

AfterSteps == InProcess /\ opc = "steps" /\ stepIdx > Len(steps)

\* OrchReturnSingle returning the key of the only entry instead of its value
OrchReturnSingle_ReturnsKey ==
    /\ AfterSteps
    /\ Len(results) = 1
    /\ orch_ret' = << results[1].name >>
    /\ opc' = "returned"
    /\ UNCHANGED << planText, steps, stepIdx, results, executed,
                    synthesis_prompt, planCalls, synthCalls >>
    /\ UNCHANGED << mainVars, loopVars, reqVars >>

\* `if len(results) == 1: return list(results.values())[0]`
OrchReturnSingle ==
    /\ AfterSteps
    /\ Len(results) = 1
    /\ orch_ret' = results[1].result
    /\ opc' = "returned"
    /\ UNCHANGED << planText, steps, stepIdx, results, executed,
                    synthesis_prompt, planCalls, synthCalls >>
    /\ UNCHANGED << mainVars, loopVars, reqVars >>

\* OrchSynthesize answering with the placeholder, without a call, when no
\* specialist produced a result
OrchSynthesize_PlaceholderWhenEmpty ==
    /\ AfterSteps
    /\ Len(results) # 1
    /\ IF Len(results) = 0
       THEN /\ orch_ret' = EmptyResponse
            /\ UNCHANGED << synthesis_prompt, synthCalls >>
       ELSE /\ synthesis_prompt' = SynthesisPrompt(user_input, results)
            /\ synthCalls' = synthCalls + 1
            /\ orch_ret' = SynthesisText
    /\ opc' = "returned"
    /\ UNCHANGED << planText, steps, stepIdx, results, executed, planCalls,
                    exc >>
    /\ UNCHANGED << mainVars, loopVars >>

\* the synthesis call returned
OrchSynthesize ==
    /\ AfterSteps
    /\ Len(results) # 1
    /\ synthesis_prompt' = SynthesisPrompt(user_input, results)
    /\ synthCalls' = synthCalls + 1
    /\ orch_ret' = SynthesisText
    /\ opc' = "returned"
    /\ UNCHANGED << planText, steps, stepIdx, results, executed, planCalls,
                    exc >>
    /\ UNCHANGED << mainVars, loopVars >>

\* the synthesis call raised
OrchSynthesizeFails ==
    /\ AfterSteps
    /\ Len(results) # 1
    /\ synthesis_prompt' = SynthesisPrompt(user_input, results)
    /\ synthCalls' = synthCalls + 1
    /\ exc' = "LLMCallError"
    /\ opc' = "raised"
    /\ UNCHANGED << planText, steps, stepIdx, results, executed, orch_ret,
                    planCalls >>
    /\ UNCHANGED << mainVars, loopVars >>

\* ------------------------------------------------------------ specification
Next ==
    \/ AgentConnectServer \/ AgentConnectFails \/ AgentConnectDone
    \/ SystemConnectServer \/ SystemConnectFails \/ SystemConnectDone
    \/ ChatEndOfInput \/ ChatReadLine \/ ChatPrintResponse \/ ChatPrintError
    \/ RequestInterrupted
    \/ Cleanup
    \/ QueryGenerate \/ QueryGenerateFails
    \/ QueryToolUnknown \/ QueryCallTool \/ QueryCallToolFails
    \/ RunGenerate \/ RunGenerateFails
    \/ RunToolUnknown \/ RunCallTool \/ RunCallToolFails
    \/ OrchPlan \/ OrchPlanFails
    \/ OrchStepKeyError \/ OrchStepSkip \/ OrchStepRun \/ OrchStepReturn
    \/ OrchReturnSingle \/ OrchSynthesize \/ OrchSynthesizeFails

Spec == Init /\ [][Next]_vars

\* main's `finally: await x.cleanup()` runs whenever the try block is left
FairSpec == Spec /\ WF_vars(Cleanup)

\* the program with a caller that may call connect again between requests
NextReconnect == Next \/ ConnectAgain

SpecReconnect == Init /\ [][NextReconnect]_vars

\* ================================================================== claims
\* the routing table the running loop resolves tool names with
RoutingTable ==
    IF runner = "query" THEN tools_map
    ELSE IF runner \in DOMAIN specialists THEN specialists[runner].tools_map
    ELSE EmptyDict

LoopRunning == lpc \in {"generate", "tools"}

\* C1: one run of the tool-calling loop (query or run) makes at most
\* max_iterations generate_content calls and terminates: a new call is made
\* only while fewer than max_iterations passes are complete, and every step
\* that keeps the run going strictly advances (pass, call index), which is
\* bounded, so no run goes on forever.
C1_TerminatesWithinMaxIterations ==
    /\ [](llmCalls <= max_iterations)
    /\ [](lpc = "generate" => llmCalls = iteration /\ iteration < max_iterations)
    /\ [](lpc = "tools" => /\ iteration < max_iterations
                           /\ fcIdx \in 1..Len(function_calls))
    /\ [][ LoopRunning /\ lpc' \in {"generate", "tools"} =>
             LET phase == IF lpc = "tools" THEN fcIdx ELSE 0
                 phaseN == IF lpc' = "tools" THEN fcIdx' ELSE 0
             IN \/ iteration' > iteration
                \/ iteration' = iteration /\ phaseN > phase ]_vars

C1_Witness ==
    /\ lpc = "returned"
    /\ llmCalls = max_iterations
    /\ iteration = max_iterations

\* what the claims expect of a final response: the non-empty texts of its
\* text parts, in order, separated by single newlines; the placeholder if
\* it has none
RECURSIVE JoinedTexts(_, _, _)
JoinedTexts(ps, acc, any) ==
    IF Len(ps) = 0 THEN (IF any THEN acc ELSE EmptyResponse)
    ELSE IF Head(ps).kind = "text" /\ Len(Head(ps).text) > 0
         THEN JoinedTexts(Tail(ps),
                          IF any THEN acc \o <<NL>> \o Head(ps).text
                          ELSE Head(ps).text,
                          TRUE)
         ELSE JoinedTexts(Tail(ps), acc, any)

NoCalls(ps) == \A i \in 1..Len(ps) : ps[i].kind # "function_call"

\* C2: a response without function-call parts ends the run in the same step
\* with exactly the texts of its non-empty text parts joined by newlines (the
\* placeholder if there are none); the text of earlier model turns does not
\* occur in the returned value, and no tool is invoked and no turn appended
\* for that response.
C2_FinalResponseIsReturned ==
    /\ [](lpc = "returned" /\ NoCalls(response) =>
            /\ loop_ret = JoinedTexts(response, << >>, FALSE)
            /\ \A t \in 1..Len(messages) :
                 messages[t].role = "model" =>
                   \A i \in 1..Len(messages[t].parts) :
                      messages[t].parts[i].kind = "text" =>
                         ~Contains(loop_ret, messages[t].parts[i].text))
    /\ [][ lpc = "generate" /\ llmCalls' = llmCalls + 1 /\ exc' = exc =>
             /\ NoCalls(response') <=> lpc' = "returned"
             /\ NoCalls(response') =>
                  /\ toolLog' = toolLog
                  /\ messages' = messages
                  /\ tool_results' = tool_results ]_vars

C2_Witness ==
    /\ lpc = "returned"
    /\ response = << TextPart(<<"a">>), TextPart(<<"b">>) >>
    /\ loop_ret = <<"a", NL, "b">>
    /\ Len(messages) > 1

\* C3 (as claimed): an error raised by one call_tool invocation never aborts
\* the loop run.
C3_ToolErrorNeverAborts ==
    ~(lpc = "raised" /\ exc = "ToolInvocationError")

\* C4 (as claimed): a request for a tool without a routing entry never
\* reaches call_tool, and a run handling a response that holds such a
\* request is never aborted by it: once its error result is produced the
\* run goes on to append the tool-result turn.
C4_UnknownToolNeverAborts ==
    /\ \A i \in 1..Len(toolLog) : toolLog[i].name \in DOMAIN RoutingTable
    /\ (\E i \in 1..Len(tool_results) :
           /\ tool_results[i].name \notin DOMAIN RoutingTable
           /\ tool_results[i].result = UnknownToolError(tool_results[i].name))
       => lpc \in {"generate", "tools", "returned", "idle"} \/ exc = "LLMCallError"

\* C5 (as claimed): when each of max_iterations responses requested a tool
\* call, the run ends by returning the warning string, never by raising.
C5_WarningAfterMaxIterations ==
    ( /\ llmCalls = max_iterations
      /\ exc # "LLMCallError"
      /\ \E i \in 1..Len(response) : response[i].kind = "function_call" )
    => /\ lpc \in {"tools", "returned"}
       /\ lpc = "returned" => loop_ret = MaxIterWarning

\* the labelled rendering of one specialist's output in a prompt
Section(agent, output) ==
    <<"--- ", agent, " result ---", NL>> \o output \o <<NL, NL>>

\* some occurrence of a in hay starts before some occurrence of b
OccursBefore(hay, a, b) ==
    \E i \in 0..(Len(hay) - Len(a)), l \in 0..(Len(hay) - Len(b)) :
       /\ i < l
       /\ \A j \in 1..Len(a) : hay[i + j] = a[j]
       /\ \A j \in 1..Len(b) : hay[l + j] = b[j]

\* C6 (as claimed): the task string of every specialist run contains the
\* user request and the output of every earlier run of the same request,
\* whatever agents the plan names.
C6_TaskHasEveryEarlierOutput ==
    \A k \in 1..Len(executed) :
       /\ Contains(executed[k].task, user_input)
       /\ \A j \in 1..(k - 1) : Contains(executed[k].task, executed[j].output)

\* C7 (as claimed): when two or more steps ran a specialist, process returns
\* the text of exactly one synthesis call.
C7_SynthesisWhenSeveralStepsRan ==
    (opc = "returned" /\ Len(executed) >= 2)
    => (synthCalls = 1 /\ orch_ret = SynthesisText)

\* C8 (as claimed): the synthesis prompt contains the user request and the
\* labelled output of every executed step, in the order of execution.
C8_SynthesisPromptInStepOrder ==
    synthCalls = 1 =>
       /\ Contains(synthesis_prompt, user_input)
       /\ \A k \in 1..Len(executed) :
             Contains(synthesis_prompt,
                      Section(executed[k].agent, executed[k].output))
       /\ \A j, k \in 1..Len(executed) :
             LET sj == Section(executed[j].agent, executed[j].output)
                 sk == Section(executed[k].agent, executed[k].output)
             IN (j < k /\ sj # sk) => OccursBefore(synthesis_prompt, sj, sk)

DirectShape(t) ==
    /\ t.valid /\ t.isObject
    /\ {"needs_specialists", "direct_response"} \subseteq t.keys
    /\ ~t.needs_specialists

PlanShape(t) ==
    /\ t.valid /\ t.isObject
    /\ {"needs_specialists", "plan"} \subseteq t.keys
    /\ t.needs_specialists
    /\ \A i \in 1..Len(t.plan) : {"agent", "task"} \subseteq t.plan[i].keys

\* C9 (as claimed): a planning response that is not JSON or has neither
\* recognized shape makes process raise after the one planning call, with
\* no specialist run and no answer returned.
C9_BadPlanFailsRequest ==
    (opc \notin {"idle", "plan"} /\ ~DirectShape(planText) /\ ~PlanShape(planText))
    => /\ opc = "raised"
       /\ executed = << >>
       /\ planCalls = 1
       /\ synthCalls = 0

\* C10: a plan with needs_specialists false makes process return its
\* direct_response unchanged after the planning call alone: no specialist
\* run, no loop generate call, no tool invocation, no synthesis call.
C10_DirectResponseReturned ==
    (opc \notin {"idle", "plan"} /\ DirectShape(planText))
    => /\ opc = "returned"
       /\ orch_ret = planText.direct_response
       /\ planCalls = 1
       /\ synthCalls = 0
       /\ executed = << >>
       /\ lpc = "idle" /\ llmCalls = 0 /\ toolLog = << >>

C10_Witness ==
    /\ opc = "returned"
    /\ DirectShape(planText)
    /\ orch_ret = <<"hi">>
    /\ planCalls = 1

\* the agent keys the orchestrator is constructed with
RegisteredAgents == {"analyst", "writer", "reviewer"}

\* C11: a well-formed plan step naming an agent outside the specialist set
\* is passed over without raising: the for-loop moves to the next step with
\* results, the run log and the loop untouched; no run and no result entry
\* ever carries such a name, and every registered step before the current
\* one has been run.
C11_UnknownAgentSkipped ==
    /\ [][ ( /\ mpc = "request" /\ opc = "steps" /\ stepIdx <= Len(steps)
             /\ "task" \in steps[stepIdx].keys
             /\ steps[stepIdx].agent \notin RegisteredAgents )
           => /\ opc' = "steps" /\ exc' = "" /\ mpc' = "request"
              /\ stepIdx' = stepIdx + 1 /\ steps' = steps
              /\ results' = results /\ executed' = executed
              /\ lpc' = "idle" /\ llmCalls' = 0 /\ toolLog' = << >> ]_vars
    /\ [](\A k \in 1..Len(executed) : executed[k].agent \in RegisteredAgents)
    /\ [](\A i \in 1..Len(results) : results[i].name \in RegisteredAgents)
    /\ []((mpc = "request" /\ opc = "steps") =>
             { executed[k].step : k \in 1..Len(executed) }
               = { i \in 1..(stepIdx - 1) : steps[i].agent \in RegisteredAgents })

C11_Witness ==
    \E k \in 1..Len(executed), i \in 1..Len(steps) :
       /\ steps[i].agent = "ghost"
       /\ executed[k].step > i
       /\ executed[k].done

\* C12: when exactly one plan step ran a specialist, process returns that
\* run's output unchanged, with the planning call as the orchestrator's only
\* generate_content call.
C12_SingleResultVerbatim ==
    (opc = "returned" /\ Len(executed) = 1)
    => /\ orch_ret = executed[1].output
       /\ executed[1].done
       /\ planCalls = 1
       /\ synthCalls = 0
       /\ synthesis_prompt = << >>

C12_Witness ==
    /\ opc = "returned"
    /\ Len(executed) = 1
    /\ Len(steps) > 1
    /\ orch_ret = <<"a", NL, "b">>

\* the contexts of a sequence, as a set
Range(q) == { q[i] : i \in 1..Len(q) }

\* C13: a provider that fails to start, initialize or list its tools ends
\* connect with the failure in main (no prompt is shown, no later provider is
\* tried); leaving connect without a failure means every provider has a
\* session; contexts are only ever added to the exit stack until cleanup
\* releases all of them; and once main leaves its try block, by a
\* failure of connect, a failure of chat_loop or a normal end, cleanup runs.
C13_ConnectFailurePropagatesAndReleases ==
    /\ [][ (mpc = "connect" /\ mpc' # "connect" /\ connIdx <= Len(Servers))
           => /\ mainExc' = "ProviderConnectError"
              /\ mpc' = "cleanup"
              /\ connIdx' = connIdx ]_vars
    /\ [](mainExc = "ProviderConnectError" =>
             /\ mpc \in {"cleanup", "exited"}
             /\ printed = NoPrint /\ user_input = << >>)
    /\ [](mpc \in {"prompt", "request"} =>
             /\ mainExc = ""
             /\ sessions = Range(Servers)
             /\ \A i \in 1..Len(Servers) :
                   {Ctx("stdio", Servers[i]), Ctx("session", Servers[i])}
                      \subseteq Range(exit_stack))
    /\ [][ exit_stack' # exit_stack =>
             \/ /\ mpc = "connect"
                /\ Len(exit_stack') > Len(exit_stack)
                /\ SubSeq(exit_stack', 1, Len(exit_stack)) = exit_stack
             \/ /\ mpc' = "exited"
                /\ exit_stack' = << >>
                /\ Range(exit_stack) \subseteq Range(released') ]_vars
    /\ [](mpc = "exited" => exit_stack = << >>)
    /\ [](mpc # "exited" => released = << >>)
    /\ (mpc = "cleanup") ~> (mpc = "exited")

C13_Witness ==
    /\ mpc = "exited"
    /\ mainExc = "ProviderConnectError"
    /\ released = << Ctx("stdio", "s2"), Ctx("session", "s1"), Ctx("stdio", "s1") >>

\* C14 (as claimed): the session is left only from the prompt: by end of
\* input, an interrupt at the prompt, or quit / exit.
C14_OnlyPromptEndsSession ==
    [][ (mpc \in {"prompt", "request"} /\ mpc' \notin {"prompt", "request"})
        => mpc = "prompt" ]_vars

RequestErrors ==
    {"LLMCallError", "ToolInvocationError", "JSONDecodeError", "KeyError",
     "AttributeError"}

\* C14 (amended): an Exception raised while one request is handled reaches
\* chat_loop in the step that raises it, is printed as one error line and the
\* prompt is shown again; the session is left only from the prompt (end of
\* input, interrupt, quit / exit in any case) or by a user interrupt while
\* the request is handled; empty input starts no request.
C14_RequestErrorsCaught ==
    /\ [](mpc = "request" /\ exc # "" =>
             /\ exc \in RequestErrors
             /\ IF multi_mode THEN opc = "raised" ELSE lpc = "raised")
    /\ [][ (mpc = "request" /\ exc # "") =>
             /\ mpc' = "prompt"
             /\ printed' = [kind |-> "error", text |-> <<exc>>]
             /\ mainExc' = "" /\ exc' = "" ]_vars
    /\ [][ (mpc \in {"prompt", "request"} /\ mpc' \notin {"prompt", "request"})
           => /\ mpc' = "cleanup"
              /\ \/ mpc = "prompt" /\ mainExc' = "" /\ printed'.kind = "bye"
                 \/ mpc = "request" /\ exc = "" /\ mainExc' = "KeyboardInterrupt" ]_vars
    /\ [][ (mpc = "prompt" /\ mpc' = "request")
           => /\ user_input' # << >>
              /\ \A i \in 1..Len(user_input') : ~IsSpace(user_input'[i])
              /\ Lower(user_input') \notin { <<"q", "u", "i", "t">>,
                                             <<"e", "x", "i", "t">> } ]_vars
    /\ [][ (mpc = "prompt" /\ user_input' = << >>) => mpc' \in {"prompt", "cleanup"} ]_vars

C14_Witness ==
    /\ mpc = "prompt"
    /\ printed = [kind |-> "error", text |-> <<"LLMCallError">>]
    /\ mainExc = ""

\* what one discovery on a fresh object yields
RECURSIVE FirstRouting(_)
FirstRouting(n) ==
    IF n = 0 THEN EmptyDict
    ELSE RegisterTools(FirstRouting(n - 1), ListTools(Servers[n]), Servers[n])

RECURSIVE FirstCatalog(_)
FirstCatalog(n) ==
    IF n = 0 THEN << >> ELSE FirstCatalog(n - 1) \o ListTools(Servers[n])

\* C15: whenever connect has completed, for the first time or again on the
\* same providers, the routing table and the catalog (and what the analyst
\* is given) are those of one discovery: a second discovery leaves them
\* identical to the first.
C15_DiscoveryIdempotent ==
    mpc \in {"prompt", "request"} =>
       /\ tools_map = FirstRouting(Len(Servers))
       /\ gemini_tools = FirstCatalog(Len(Servers))
       /\ multi_mode => /\ specialists["analyst"].tools_map = FirstRouting(Len(Servers))
                        /\ specialists["analyst"].gemini_tools = FirstCatalog(Len(Servers))

C15_Witness ==
    /\ mpc = "prompt"
    /\ Len(exit_stack) = 2 * Len(Servers) * 2
    /\ DictGet(tools_map, "search") = "s2"
    /\ Len(gemini_tools) = 3

\* C16 (as claimed): every model turn with n >= 1 function calls is
\* followed by exactly one tool-result turn of n parts, the i-th named after
\* the i-th call; while that turn is still missing the run is invoking the
\* calls in order (one result per call so far) and makes no LLM call.
C16_ToolResultTurnPerIteration ==
    \A t \in 1..Len(messages) :
       messages[t].role = "model" =>
          LET calls == FunctionCalls(messages[t].parts) IN
          /\ Len(calls) >= 1
          /\ IF t = Len(messages)
             THEN /\ lpc = "tools"
                  /\ Len(tool_results) = fcIdx - 1
                  /\ \A i \in 1..Len(tool_results) :
                        tool_results[i].name = calls[i].name
             ELSE /\ messages[t + 1].role = "user"
                  /\ Len(messages[t + 1].parts) = Len(calls)
                  /\ \A i \in 1..Len(calls) :
                        /\ messages[t + 1].parts[i].kind = "function_response"
                        /\ messages[t + 1].parts[i].name = calls[i].name

\* every response the model scripts for either loop
AllResponses ==
    QueryToolResponses \cup QueryFinalResponses \cup RunToolResponses
       \cup RunFinalResponses

\* C17: run and query are the same state machine over the loop state: on
\* every step taken while a loop is running, the step is a step of query's
\* loop body exactly when it is a step of run's, for each response, for an
\* LLM failure, and for each outcome of the current tool call under the
\* running loop's routing table; and both start from one user turn holding
\* their argument with no call made.  (The system instruction that run adds
\* to each generate_content call is not part of the loop state.)
C17_RunIsQuery ==
    /\ [][ lpc = "generate" =>
             /\ \A parts \in AllResponses :
                   LoopOnResponse(parts) <=> RunLoopOnResponse(parts)
             /\ LoopOnLlmError <=> RunLoopOnLlmError ]_vars
    /\ [][ (lpc = "tools" /\ fcIdx \in 1..Len(function_calls)) =>
             /\ LoopToolUnknown(RoutingTable) <=> RunLoopToolUnknown(RoutingTable)
             /\ LoopCallTool(RoutingTable) <=> RunLoopCallTool(RoutingTable)
             /\ LoopCallToolRaises(RoutingTable)
                  <=> RunLoopCallToolRaises(RoutingTable) ]_vars
    /\ [][ (lpc # "generate" /\ lpc' = "generate" /\ iteration' = 0) =>
             /\ messages' = << UserTurn(IF runner' = "query" THEN user_input'
                                        ELSE executed'[Len(executed')].task) >>
             /\ llmCalls' = 0 /\ toolLog' = << >> /\ tool_results' = << >> ]_vars
    /\ [](lpc = "tools" => fcIdx \in 1..Len(function_calls))

C17_Witness ==
    /\ lpc = "returned"
    /\ runner = "analyst"
    /\ toolLog # << >>
    /\ Len(messages) >= 3
    /\ loop_ret = <<"a", NL, "b">>

\* C18: the writer and the reviewer are built without catalog, sessions and
\* routing table; no run of theirs invokes call_tool, every result part they
\* produce is the unknown-tool error for the requested name, and in the
\* multi-agent system only the analyst's run ever reaches a provider.
C18_OnlyAnalystCallsTools ==
    /\ specialists # EmptyDict =>
          \A a \in {"writer", "reviewer"} :
             /\ specialists[a].gemini_tools = << >>
             /\ specialists[a].sessions = {}
             /\ specialists[a].tools_map = EmptyDict
    /\ runner \in {"writer", "reviewer"} =>
          /\ toolLog = << >>
          /\ exc # "ToolInvocationError"
          /\ \A i \in 1..Len(tool_results) :
                tool_results[i].result = UnknownToolError(tool_results[i].name)
          /\ \A t \in 1..Len(messages) : \A i \in 1..Len(messages[t].parts) :
                messages[t].parts[i].kind = "function_response" =>
                   messages[t].parts[i].result
                      = UnknownToolError(messages[t].parts[i].name)
          /\ lpc = "tools" => Len(tool_results) = fcIdx - 1
    /\ (multi_mode /\ toolLog # << >>) => runner = "analyst"

C18_Witness ==
    /\ runner = "writer"
    /\ lpc = "returned"
    /\ \E t \in 1..Len(messages) : \E i \in 1..Len(messages[t].parts) :
          /\ messages[t].parts[i].kind = "function_response"
          /\ messages[t].parts[i].name = "get_commits"
          /\ messages[t].parts[i].result = UnknownToolError("get_commits")

\* C19: specialist runs do not overlap and follow plan order: all runs but
\* the last have returned and their steps increase; a loop is in flight
\* only inside the run of the current step; a run starts only when every
\* earlier run has returned its result and no loop is in flight; the
\* orchestrator's own LLM calls are made only while no run is in flight; and
\* no step makes more than one LLM call or tool invocation.
C19_SpecialistsRunOneAtATime ==
    /\ [](\A k \in 1..(Len(executed) - 1) :
             /\ executed[k].done
             /\ executed[k].step < executed[k + 1].step)
    /\ []((multi_mode /\ lpc # "idle") =>
             /\ opc \in {"running", "raised"}
             /\ Len(executed) > 0
             /\ ~executed[Len(executed)].done
             /\ runner = executed[Len(executed)].agent
             /\ executed[Len(executed)].step = stepIdx)
    /\ []((Len(executed) > 0 /\ ~executed[Len(executed)].done) =>
             opc \in {"running", "raised"} /\ lpc # "idle")
    /\ [][ Len(executed') > Len(executed) =>
             /\ Len(executed') = Len(executed) + 1
             /\ lpc = "idle" /\ opc = "steps"
             /\ \A k \in 1..Len(executed) :
                   /\ executed[k].done
                   /\ \E i \in 1..Len(results) : results[i].name = executed[k].agent ]_vars
    /\ [][ (planCalls' > planCalls \/ synthCalls' > synthCalls) =>
             lpc = "idle" /\ lpc' = "idle" ]_vars
    /\ [][ LET inc(a, b) == IF b > a THEN b - a ELSE 0
           IN inc(llmCalls, llmCalls') + inc(Len(toolLog), Len(toolLog'))
                + inc(planCalls, planCalls') + inc(synthCalls, synthCalls') <= 1 ]_vars

C19_Witness ==
    /\ Len(executed) = 3
    /\ executed[1].done /\ executed[2].done /\ ~executed[3].done
    /\ lpc = "tools"
    /\ toolLog # << >>

\* the position in Servers of the last provider that lists the name
LastListing(name) ==
    CHOOSE i \in 1..Len(Servers) :
       /\ name \in Range(ListTools(Servers[i]))
       /\ \A j \in (i + 1)..Len(Servers) : name \notin Range(ListTools(Servers[j]))

\* how many entries of a sequence equal x
Count(q, x) == Cardinality({ i \in 1..Len(q) : q[i] = x })

\* C20: after discovery the routing table maps every listed name to the
\* provider discovered last among those listing it ("search", listed by
\* both, to the second); the catalog has one entry per listed tool, so two
\* for "search"; and every catalog name is routed to a provider whose
\* session is established and held on the exit stack.
C20_LastRegisteredWins ==
    mpc \in {"prompt", "request"} =>
       /\ DictGet(tools_map, "search") = "s2"
       /\ \A n \in DOMAIN tools_map : tools_map[n] = Servers[LastListing(n)]
       /\ \A i \in 1..Len(Servers) : \A n \in Range(ListTools(Servers[i])) :
             Count(gemini_tools, n)
                = Cardinality({ j \in 1..Len(Servers) :
                                   Count(ListTools(Servers[j]), n) > 0 })
       /\ Count(gemini_tools, "search") = 2
       /\ Len(gemini_tools) = Len(ListTools("s1")) + Len(ListTools("s2"))
       /\ \A i \in 1..Len(gemini_tools) :
             /\ gemini_tools[i] \in DOMAIN tools_map
             /\ tools_map[gemini_tools[i]] \in sessions
             /\ Ctx("session", tools_map[gemini_tools[i]]) \in Range(exit_stack)

C20_Witness ==
    /\ mpc = "request"
    /\ lpc = "returned"
    /\ \E i \in 1..Len(toolLog) : toolLog[i] = [server |-> "s2", name |-> "search"]

\* a plan that asks for specialists and can produce no result: no plan
\* list, an empty one, or only well-formed steps naming unregistered agents
ZeroResultPlan(t) ==
    /\ t.valid /\ t.isObject
    /\ "needs_specialists" \in t.keys /\ t.needs_specialists
    /\ "plan" \in t.keys =>
          \A i \in 1..Len(t.plan) :
             /\ {"agent", "task"} \subseteq t.plan[i].keys
             /\ t.plan[i].agent \notin RegisteredAgents

\* C21: with a zero-result plan, process runs no specialist and raises
\* nothing of its own: once the steps are passed, the next step is the
\* synthesis call (or a user interrupt), made with a prompt that holds the
\* user request and no result section; when the call returns, its text is
\* what process returns, never the placeholder; the only failure there can
\* be is that call itself raising.
C21_ZeroResultsStillSynthesize ==
    /\ []((opc \notin {"idle", "plan"} /\ ZeroResultPlan(planText)) =>
             /\ executed = << >> /\ results = << >>
             /\ lpc = "idle" /\ planCalls = 1
             /\ opc \in {"steps", "returned", "raised"}
             /\ opc = "returned" =>
                   /\ synthCalls = 1
                   /\ orch_ret = SynthesisText
                   /\ orch_ret # EmptyResponse
             /\ opc = "raised" => (exc = "LLMCallError" /\ synthCalls = 1)
             /\ synthCalls = 1 =>
                   /\ Contains(synthesis_prompt, user_input)
                   /\ \A i \in 1..Len(synthesis_prompt) :
                         synthesis_prompt[i] \notin {"--- ", " result ---"})
    /\ [][ ( /\ mpc = "request" /\ opc = "steps" /\ stepIdx > Len(steps)
             /\ ZeroResultPlan(planText) )
           => \/ synthCalls' = synthCalls + 1 /\ opc' \in {"returned", "raised"}
              \/ mainExc' = "KeyboardInterrupt" ]_vars

C21_Witness ==
    /\ opc = "returned"
    /\ Len(steps) = 2
    /\ \A i \in 1..Len(steps) : steps[i].agent = "ghost"
    /\ executed = << >>
    /\ synthCalls = 1
    /\ orch_ret = SynthesisText

====
